---- MODULE Spec2Model ----
(***************************************************************************)
(* FortressConnection: persistent TCP session with the Fortress "total     *)
(* wifi" panel (src/FortressConnection.py).                                 *)
(*                                                                         *)
(* The object's fields are the state variables.  Every method is an        *)
(* operator over a record of those fields (the object "self"); it returns  *)
(* the record after the call, with the observable operations the call made *)
(* (callbacks, transport and timer operations) appended to its log field.  *)
(* Time is discrete: Tick lets one time unit pass once every thread is     *)
(* blocked and no timer is due.                                            *)
(*                                                                         *)
(* Scheduling in Spec: every handler (a timer expiry, the processing of    *)
(* one received buffer, one heartbeat, one sendCommand) runs to completion *)
(* before the next one starts.  A receive loop whose socket was closed by  *)
(* another thread stays blocked in select() until its timeout (the Linux   *)
(* behaviour of select on a descriptor closed elsewhere) and then returns. *)
(***************************************************************************)
EXTENDS Integers, Sequences, FiniteSets, TLC

VARIABLES
    all_good,          \* self.all_good
    arm_status,        \* self.arm_status: bytes, or NoStatus for None
    alarming,          \* self.alarming: "None", "False" or "True"
    count,             \* self.count
    fortress_socket,   \* self.fortress_socket: "None", "unconnected", "connected"
    timeout_timer,     \* self.timeout_timer: the threading.Timer it references
    heartbeat_timer,   \* self.heartbeat_timer: the RepeatingTimer it references
    threads,           \* the threads blocked in select() inside work()'s loop
    phase,             \* "init" before the host called work(), then "started"
    stopped,           \* a KeyboardInterrupt was handled in the receive loop
    log,               \* observable operations performed by the last step
    rx,                \* the buffer received in the last step, if any
    attempt,           \* outcome of the latest run of the connect sequence
    fault,             \* class of the failure the pending retry was scheduled for
    quiet,             \* while all_good: time units since bind or the last HeartbeatAck
    race               \* SpecRace only: the threads with their positions in the
                       \* code, the identity of the socket, the unreferenced timers

vars == <<all_good, arm_status, alarming, count, fortress_socket,
          timeout_timer, heartbeat_timer, threads, phase, stopped,
          log, rx, attempt, fault, quiet, race>>

----------------------------------------------------------------------------
(* Program constants *)

HEARTBEAT_INTERVAL == 4
TIMEOUT_AFTER == 9
RETRY_AFTER_ERROR == 3

HANDSHAKE == <<0, 0, 0, 3, 15, 0, 0, 8, 0, 10, 74, 81, 69, 66, 83, 83, 66, 79, 76, 65>>
BIND_ME == <<0, 0, 0, 3, 4, 0, 0, 144, 2>>
CONNECTION_IS_BOUND == <<0, 0, 0, 3, 4, 0, 0, 9, 0>>
HEARTBEAT == <<0, 0, 0, 3, 3, 0, 0, 21>>
HEARTBEAT_ACK == <<0, 0, 0, 3, 3, 0, 0, 22>>
COMMAND == <<0, 0, 0, 3, 87, 0, 0, 144, 1, 0, 16, 0, 0>>

ALARMING == <<1>>
DISARM == <<16>>
ARM == <<0>>
STAY_ARM == <<32>>

StatusLen == 182
AckLen == 8

\* Python's None in self.arm_status; _to_bin_char never returns b''.
NoStatus == << >>

----------------------------------------------------------------------------
(* Bounds of the model *)

\* heartbeats emitted in one session before the model stops following it
MaxCount == 2
\* offset at which a HeartbeatAck literal is embedded in larger buffers
AckOffset == 20

----------------------------------------------------------------------------
(* Byte-level helpers *)

\* bytes(chr(ch), 'utf-8'): one byte below 128, two bytes from 128 to 2047
ToBinChar(ch) ==
    IF ch < 128 THEN <<ch>>
    ELSE <<192 + (ch \div 64), 128 + (ch % 64)>>

RECURSIVE IntFromBytes(_)
\* int.from_bytes(b, byteorder='big')
IntFromBytes(b) ==
    IF Len(b) = 0 THEN 0
    ELSE 256 * IntFromBytes(SubSeq(b, 1, Len(b) - 1)) + b[Len(b)]

\* data.find(pat): the lowest 0-based offset at which pat occurs, or -1
Find(data, pat) ==
    LET hits == {i \in 0..(Len(data) - Len(pat)) :
                    \A j \in 1..Len(pat) : data[i + j] = pat[j]}
    IN IF hits = {} THEN -1
       ELSE CHOOSE i \in hits : \A k \in hits : i <= k

\* b'\x00' * n
Zeros(n) == [i \in 1..n |-> 0]

----------------------------------------------------------------------------
(* Objects referenced by the fields *)

\* a threading.Timer: kind "error" (3 units) or "timeout" (9 units); rem is
\* the time left before it fires, age the time since it was started
NoTimer == [st |-> "none", kind |-> "none", rem |-> 0, age |-> 0]

NewTimer(kind, delay) == [st |-> "pending", kind |-> kind, rem |-> delay, age |-> 0]

\* a RepeatingTimer: "running" with rem units to its next call, or "dead"
\* once a call of its function raised
NoHb == [st |-> "none", rem |-> 0]

\* one observable operation: a callback (a: value delivered, b: value that
\* was stored before, z: zone), a transport or a timer operation
Ev(op, a, b, z) == [op |-> op, a |-> a, b |-> b, z |-> z, x |-> << >>, y |-> << >>]

\* an operation whose values are bytes (x: value delivered or sent, y: value
\* that was stored before)
EvBytes(op, x, y) == [op |-> op, a |-> "", b |-> "", z |-> 0, x |-> x, y |-> y]

NoRx == [len |-> -1, ack |-> -1, bound |-> FALSE, hi |-> -1, outlets |-> -1,
         zbyte |-> -1, flag |-> -1, wasAlarming |-> "None"]

PyBool(b) == IF b THEN "True" ELSE "False"

\* the object as a record of its fields, with an empty log; raised tells
\* that an exception is propagating out of the method that was called
Self ==
    [all_good |-> all_good, arm_status |-> arm_status, alarming |-> alarming,
     count |-> count, fortress_socket |-> fortress_socket,
     timeout_timer |-> timeout_timer, heartbeat_timer |-> heartbeat_timer,
     log |-> << >>, raised |-> FALSE]

Emit(s, e) == [s EXCEPT !.log = Append(@, e)]

----------------------------------------------------------------------------
(* Methods of FortressConnection *)

\* _set_all_good: stores the value and calls onErrorChange
SetAllGood(s, isGood) ==
    Emit([s EXCEPT !.all_good = isGood],
         Ev("onErrorChange", PyBool(isGood), PyBool(s.all_good), 0))

\* _clear_timers
ClearTimers(s) ==
    LET s1 == IF s.timeout_timer.st # "none"
              THEN Emit([s EXCEPT !.timeout_timer = NoTimer],
                        Ev("cancel", "timeout_timer", s.timeout_timer.st, s.timeout_timer.age))
              ELSE s
    IN IF s1.heartbeat_timer.st # "none"
       THEN Emit([s1 EXCEPT !.heartbeat_timer = NoHb],
                 Ev("cancel", "heartbeat_timer", s1.heartbeat_timer.st, 0))
       ELSE s1

\* _reschedule_reconnect_asap
RescheduleReconnectAsap(s) ==
    LET s1 == ClearTimers(SetAllGood(s, FALSE))
    IN Emit([s1 EXCEPT !.timeout_timer = NewTimer("error", RETRY_AFTER_ERROR)],
            Ev("arm", "error", "", RETRY_AFTER_ERROR))

\* _reschedule_reconnect arming the delay of the error path
RescheduleReconnect_retry_delay(s) ==
    LET s1 == IF s.timeout_timer.st # "none"
              THEN Emit([s EXCEPT !.timeout_timer = NoTimer],
                        Ev("cancel", "timeout_timer", s.timeout_timer.st, s.timeout_timer.age))
              ELSE s
    IN Emit([s1 EXCEPT !.timeout_timer = NewTimer("timeout", RETRY_AFTER_ERROR)],
            Ev("arm", "timeout", "", RETRY_AFTER_ERROR))

\* _reschedule_reconnect
RescheduleReconnect(s) ==
    LET s1 == IF s.timeout_timer.st # "none"
              THEN Emit([s EXCEPT !.timeout_timer = NoTimer],
                        Ev("cancel", "timeout_timer", s.timeout_timer.st, s.timeout_timer.age))
              ELSE s
    IN Emit([s1 EXCEPT !.timeout_timer = NewTimer("timeout", TIMEOUT_AFTER)],
            Ev("arm", "timeout", "", TIMEOUT_AFTER))

\* _set_alarming: zone arrives as bytes, the callback gets it as an integer
SetAlarming(s, cur_alarming, zone) ==
    Emit([s EXCEPT !.alarming = cur_alarming],
         Ev("onAlarmChange", cur_alarming, s.alarming, IntFromBytes(zone)))

\* _set_arm_status
SetArmStatus(s, cur_arm_status) ==
    Emit([s EXCEPT !.arm_status = cur_arm_status],
         EvBytes("onStatusChange", cur_arm_status, s.arm_status))

\* _send_to_socket: self.fortress_socket.send(msg); the log keeps the bytes
\* that were sent.  ok is what the network
\* does with a connected socket; None has no send (AttributeError) and an
\* unconnected socket raises.
SendToSocket(s, name, msg, ok) ==
    IF s.fortress_socket = "connected" /\ ok
    THEN Emit(s, [Ev("send", name, "", Len(msg)) EXCEPT !.x = msg])
    ELSE [Emit(s, Ev("send_failed", name, "", Len(msg))) EXCEPT !.raised = TRUE]

\* _tear_down.  socket.shutdown raises on a socket that was never connected,
\* and nothing in _tear_down catches it.
TearDown(s) ==
    LET s1 == SetAllGood(s, FALSE)
        s2 == [s1 EXCEPT !.count = 0, !.arm_status = NoStatus]
        s3 == SetAlarming(s2, "None", <<0>>)
    IN CASE s3.fortress_socket = "None" -> ClearTimers(s3)
         [] s3.fortress_socket = "unconnected" ->
                [Emit(s3, Ev("shutdown_failed", "", "", 0)) EXCEPT !.raised = TRUE]
         [] OTHER ->
                ClearTimers(
                    Emit(Emit([s3 EXCEPT !.fortress_socket = "None"],
                              Ev("shutdown", "", "", 0)),
                         Ev("close", "", "", 0)))

\* where the try block of work() can fail
WorkOutcomes == {"ok", "connect", "handshake", "bind"}

\* work() sending the bind request before the handshake
Work_bind_first(s, outcome) ==
    LET s1 == Emit([s EXCEPT !.fortress_socket = "unconnected"],
                   Ev("socket", "", "", 0))
        s2 == Emit([s1 EXCEPT !.fortress_socket = "connected"],
                   Ev("connect", "", "", 0))
        s3 == SendToSocket(s2, "BIND_ME", BIND_ME, outcome # "bind")
        s4 == SendToSocket(s3, "HANDSHAKE", HANDSHAKE, outcome # "handshake")
        s5 == RescheduleReconnect(SetAllGood(s4, TRUE))
        s6 == Emit([s5 EXCEPT !.heartbeat_timer =
                                  [st |-> "running", rem |-> HEARTBEAT_INTERVAL]],
                   Ev("hb_start", "", "", HEARTBEAT_INTERVAL))
    IN CASE outcome = "connect" ->
                RescheduleReconnectAsap(Emit(s1, Ev("connect_failed", "", "", 0)))
         [] outcome = "bind" ->
                RescheduleReconnectAsap([s3 EXCEPT !.raised = FALSE])
         [] outcome = "handshake" ->
                RescheduleReconnectAsap([s4 EXCEPT !.raised = FALSE])
         [] OTHER -> s6

\* work(), up to the entry of its receive loop.  Any exception of the try
\* block ends in _reschedule_reconnect_asap and work() returns.
Work(s, outcome) ==
    LET s1 == Emit([s EXCEPT !.fortress_socket = "unconnected"],
                   Ev("socket", "", "", 0))
        s2 == Emit([s1 EXCEPT !.fortress_socket = "connected"],
                   Ev("connect", "", "", 0))
        s3 == SendToSocket(s2, "HANDSHAKE", HANDSHAKE, outcome # "handshake")
        s4 == SendToSocket(s3, "BIND_ME", BIND_ME, outcome # "bind")
        s5 == RescheduleReconnect(SetAllGood(s4, TRUE))
        s6 == Emit([s5 EXCEPT !.heartbeat_timer =
                                  [st |-> "running", rem |-> HEARTBEAT_INTERVAL]],
                   Ev("hb_start", "", "", HEARTBEAT_INTERVAL))
    IN CASE outcome = "connect" ->
                RescheduleReconnectAsap(Emit(s1, Ev("connect_failed", "", "", 0)))
         [] outcome = "handshake" ->
                RescheduleReconnectAsap([s3 EXCEPT !.raised = FALSE])
         [] outcome = "bind" ->
                RescheduleReconnectAsap([s4 EXCEPT !.raised = FALSE])
         [] OTHER -> s6

----------------------------------------------------------------------------
(* _process_update *)

\* the test without its exception for the bind acknowledgement
IsUnexpected_no_bind(data) ==
    \/ Len(data) = 0
    \/ (Len(data) # 182 /\ Len(data) # 8)

\* the length/content test that classifies a buffer as unexpected
IsUnexpected(data) ==
    \/ Len(data) = 0
    \/ (Len(data) # 182 /\ Len(data) # 8 /\ data # CONNECTION_IS_BOUND)

\* an acknowledgement recognised only when it is the whole buffer
HasHeartbeatAck_aligned(data) == data = HEARTBEAT_ACK

\* data.find(HEARTBEAT_ACK) != -1
HasHeartbeatAck(data) == Find(data, HEARTBEAT_ACK) # -1

\* now_alarming, as stored in self.alarming
NowAlarming(data) == PyBool(ToBinChar(data[182]) = ALARMING)

\* the arm status taken from the whole of byte 10
LatestArmStatus_byte10(data) == ToBinChar(data[11])

\* latest_arm_status = _to_bin_char(status_and_outlets >> 20 << 4)
LatestArmStatus(data) ==
    LET status_and_outlets == IntFromBytes(SubSeq(data, 11, 13))
    IN ToBinChar((status_and_outlets \div 1048576) * 16)

\* zone = _to_bin_char(data[89])
Zone(data) == ToBinChar(data[90])

\* the guard with its first operand inverted: "self.alarming or ..."
AlarmGuard_stored_true(stored, latest_arm_status) ==
    stored = "True" \/ latest_arm_status = DISARM

\* "not self.alarming or latest_arm_status == FortressConnection.DISARM";
\* None and False are both falsy
AlarmGuard(stored, latest_arm_status) ==
    stored # "True" \/ latest_arm_status = DISARM

\* what _process_update computes from the bytes of a buffer, and the bytes
\* the claims refer to (hi: top 4 bits of byte 10, outlets: the 20 bits below
\* them in bytes 10 to 12, zbyte: byte 89, flag: byte 181, ack: offset of the
\* HeartbeatAck literal or -1)
Decode(data) ==
    LET isStatus == Len(data) = StatusLen
    IN [len |-> Len(data),
        unexpected |-> IsUnexpected(data),
        hasAck |-> HasHeartbeatAck(data),
        now_alarming |-> IF isStatus THEN NowAlarming(data) ELSE "None",
        latest_arm_status |-> IF isStatus THEN LatestArmStatus(data) ELSE NoStatus,
        zone |-> IF isStatus THEN Zone(data) ELSE << >>,
        ack |-> Find(data, HEARTBEAT_ACK),
        bound |-> (data = CONNECTION_IS_BOUND),
        hi |-> IF isStatus THEN data[11] \div 16 ELSE -1,
        outlets |-> IF isStatus
                    THEN 65536 * (data[11] % 16) + 256 * data[12] + data[13]
                    ELSE -1,
        zbyte |-> IF isStatus THEN data[90] ELSE -1,
        flag |-> IF isStatus THEN data[182] ELSE -1]

\* the branch of _process_update for a 182-byte buffer
ProcessStatus(s, d) ==
    LET s1 == IF d.latest_arm_status # s.arm_status
              THEN SetArmStatus(s, d.latest_arm_status)
              ELSE s
    IN IF d.now_alarming # s1.alarming
          /\ AlarmGuard(s1.alarming, d.latest_arm_status)
       THEN SetAlarming(s1, d.now_alarming, d.zone)
       ELSE s1

\* _process_update decoding a status out of every valid buffer
ProcessUpdate_any_length(s, d) ==
    IF d.unexpected
    THEN RescheduleReconnectAsap(s)
    ELSE LET s1 == IF d.hasAck THEN RescheduleReconnect(s) ELSE s
         IN ProcessStatus(s1, d)

\* _process_update, on the decoded buffer d
ProcessUpdate(s, d) ==
    IF d.unexpected
    THEN RescheduleReconnectAsap(s)
    ELSE LET s1 == IF d.hasAck THEN RescheduleReconnect(s) ELSE s
         IN IF d.len = 182 THEN ProcessStatus(s1, d) ELSE s1

----------------------------------------------------------------------------
(* Buffers the panel can deliver *)

\* bytes 10 and 181 that the plain status frames of the model carry
ArmBytes == {0, 16, 32}
FlagBytes == {0, 1}

\* a 182-byte status frame; withAck embeds the HeartbeatAck literal at
\* offset AckOffset
StatusFrame(b10, b11, b12, z, f, withAck) ==
    [i \in 1..StatusLen |->
        CASE i = 11 -> b10
          [] i = 12 -> b11
          [] i = 13 -> b12
          [] i = 90 -> z
          [] i = 182 -> f
          [] withAck /\ i > AckOffset /\ i <= AckOffset + AckLen ->
                HEARTBEAT_ACK[i - AckOffset]
          [] OTHER -> 0]

\* the plain status frames (zone 7), then frames that carry a zone above
\* 127, outlet bits, a flag byte other than 0 and 1, an embedded
\* HeartbeatAck, and a value other than 0, 1, 2 in the top 4 bits of byte 10
StatusFrames ==
    {StatusFrame(b, 0, 0, 7, f, FALSE) : b \in ArmBytes, f \in FlagBytes}
    \cup {StatusFrame(0, 0, 0, 200, 1, FALSE),
          StatusFrame(31, 255, 255, 7, 0, FALSE),
          StatusFrame(0, 0, 0, 7, 2, FALSE),
          StatusFrame(0, 0, 0, 7, 0, TRUE),
          StatusFrame(48, 0, 0, 7, 0, FALSE)}

\* buffers that are not status frames: connection closed by the peer (b''),
\* the two 8-byte literals, the bind acknowledgement, another 9-byte
\* buffer, two acknowledgements in one buffer, and a status frame followed
\* by an acknowledgement in one buffer
OtherBuffers ==
    {<< >>, HEARTBEAT_ACK, HEARTBEAT, CONNECTION_IS_BOUND, BIND_ME,
     HEARTBEAT_ACK \o HEARTBEAT_ACK,
     StatusFrame(16, 0, 0, 0, 0, FALSE) \o HEARTBEAT_ACK}

Payloads == StatusFrames \cup OtherBuffers

\* the buffers of the model, decoded
Received == {Decode(data) : data \in Payloads}

\* what a step records about the buffer it received, and about the state
\* the buffer met
RxOf(d, s) ==
    [len |-> d.len, ack |-> d.ack, bound |-> d.bound, hi |-> d.hi,
     outlets |-> d.outlets, zbyte |-> d.zbyte, flag |-> d.flag,
     wasAlarming |-> s.alarming]

----------------------------------------------------------------------------
(* The state machine *)

\* no thread has been started and no timer lost: th are the threads that
\* execute methods of the object, orphans and hb_orphans count the pending
\* Timers and running RepeatingTimers that no field references any more, due
\* and hb_due those of them whose delay has passed
NoRace == [th |-> << >>, orphans |-> 0, due |-> 0, hb_orphans |-> 0, hb_due |-> 0]

\* __init__
Init ==
    /\ all_good = FALSE
    /\ arm_status = NoStatus
    /\ alarming = "None"
    /\ count = 0
    /\ fortress_socket = "None"
    /\ timeout_timer = NoTimer
    /\ heartbeat_timer = NoHb
    /\ threads = {}
    /\ phase = "init"
    /\ stopped = FALSE
    /\ log = << >>
    /\ rx = NoRx
    /\ attempt = "none"
    /\ fault = "none"
    /\ quiet = 0
    /\ race = NoRace

\* the fields and the log after a method returned
Commit(s) ==
    /\ all_good' = s.all_good
    /\ arm_status' = s.arm_status
    /\ alarming' = s.alarming
    /\ count' = s.count
    /\ fortress_socket' = s.fortress_socket
    /\ timeout_timer' = s.timeout_timer
    /\ heartbeat_timer' = s.heartbeat_timer
    /\ log' = s.log

HasEv(l, op) == \E i \in 1..Len(l) : l[i].op = op

\* a thread blocked in select(): main tells the host's thread from a timer
\* thread, cur tells that the socket it waits on is still open, rem is
\* the time left of the select timeout
LoopThread(main) == [main |-> main, cur |-> TRUE, rem |-> TIMEOUT_AFTER]

\* closing the socket leaves the loops that wait on it with a closed socket.
\* Such a loop only returns when its select() times out, at most
\* TIMEOUT_AFTER later: the model lets it return at any moment (its rem is
\* no longer counted down).  A timer thread in that position is no longer
\* followed, the main thread is, because KeyboardInterrupt is delivered to
\* it.
AfterTearDown(ths, s) ==
    IF HasEv(s.log, "close")
    THEN {[t EXCEPT !.cur = FALSE, !.rem = TIMEOUT_AFTER] : t \in {u \in ths : u.main}}
    ELSE ths

\* the failure class of an outcome of work()'s try block
FaultOf(outcome) ==
    CASE outcome = "ok" -> "none"
      [] outcome = "connect" -> "ConnectFailure"
      [] OTHER -> "TransmitFailure"

\* the host calls work()
Start(outcome) ==
    /\ phase = "init"
    /\ LET s == Work(Emit(Self, Ev("work", "start", "", 0)), outcome)
       IN /\ Commit(s)
          /\ threads' = IF outcome = "ok" THEN {LoopThread(TRUE)} ELSE {}
          /\ attempt' = IF outcome = "ok" THEN "ok" ELSE "failed"
          /\ fault' = FaultOf(outcome)
    /\ phase' = "started"
    /\ quiet' = 0
    /\ rx' = NoRx
    /\ UNCHANGED <<stopped, race>>

\* self.timeout_timer expires: its thread runs _reconnect, that is
\* _tear_down then work(), and stays in work()'s loop when the bind succeeded
TimerFire(outcome) ==
    /\ timeout_timer.st = "pending"
    /\ timeout_timer.rem = 0
    /\ LET s0 == Emit([Self EXCEPT !.timeout_timer.st = "fired"],
                      Ev("fire", timeout_timer.kind, fault, timeout_timer.age))
           s1 == TearDown(s0)
           s2 == Work(Emit(s1, Ev("work", "reconnect", "", 0)), outcome)
       IN IF s1.raised
          THEN /\ outcome = "ok"
               /\ Commit(Emit(s1, Ev("unhandled", "_reconnect", "", 0)))
               /\ threads' = AfterTearDown(threads, s1)
               /\ quiet' = 0
               /\ UNCHANGED <<attempt, fault>>
          ELSE /\ Commit(s2)
               /\ threads' = AfterTearDown(threads, s1) \cup
                             (IF outcome = "ok" THEN {LoopThread(FALSE)} ELSE {})
               /\ attempt' = IF outcome = "ok" THEN "ok" ELSE "failed"
               /\ fault' = FaultOf(outcome)
               /\ quiet' = 0
    /\ rx' = NoRx
    /\ UNCHANGED <<phase, stopped, race>>

\* the RepeatingTimer after a call of its function (the RepeatingTimer module
\* is not part of the sources: a call that raises ends its thread)
RepeatingTimerAfterCall(raised) ==
    IF raised THEN [st |-> "dead", rem |-> 0]
    ELSE [st |-> "running", rem |-> HEARTBEAT_INTERVAL]

\* self.heartbeat_timer calls _send_heartbeat
HeartbeatFire(ok) ==
    /\ heartbeat_timer.st = "running"
    /\ heartbeat_timer.rem = 0
    /\ count < MaxCount
    /\ LET s1 == SendToSocket([Self EXCEPT !.count = @ + 1],
                              "HEARTBEAT", HEARTBEAT, ok)
           s2 == [s1 EXCEPT !.heartbeat_timer = RepeatingTimerAfterCall(s1.raised)]
       IN Commit(IF s1.raised
                 THEN Emit(s2, Ev("unhandled", "_send_heartbeat", "", 0))
                 ELSE s2)
    /\ rx' = NoRx
    /\ UNCHANGED <<threads, phase, stopped, attempt, fault, quiet, race>>

\* the timeout of a select() called when the object is s: TIMEOUT_AFTER.
\* The liveness deadline, when it is due earlier, closes the socket before
\* this timeout ends, so the time beyond the unit after the deadline is not
\* counted.
SelectRem(s) ==
    IF s.timeout_timer.st = "pending" /\ s.timeout_timer.rem + 1 < TIMEOUT_AFTER
    THEN s.timeout_timer.rem + 1
    ELSE TIMEOUT_AFTER

\* select() returns a readable socket and recv() returns data
Recv(d) ==
    /\ \E t \in threads :
          /\ t.cur
          /\ LET s == ProcessUpdate(Self, d)
             IN /\ Commit(s)
                /\ threads' = (threads \ {t}) \cup
                      (IF s.all_good THEN {[t EXCEPT !.rem = SelectRem(s)]} ELSE {})
    /\ rx' = RxOf(d, Self)
    /\ quiet' = IF d.ack # -1 \/ d.unexpected THEN 0 ELSE quiet
    /\ fault' = IF d.unexpected THEN "ProtocolViolation" ELSE fault
    /\ UNCHANGED <<phase, stopped, attempt, race>>

\* select() or recv() raises: the bare except of the loop
RecvError ==
    /\ \E t \in threads :
          /\ t.cur
          /\ threads' = threads \ {t}
    /\ Commit(RescheduleReconnectAsap(Emit(Self, Ev("recv_failed", "", "", 0))))
    /\ rx' = NoRx
    /\ quiet' = 0
    /\ fault' = "ReceiveFailure"
    /\ UNCHANGED <<phase, stopped, attempt, race>>

\* select() times out: work() returns
SelectTimeout ==
    /\ \E t \in threads :
          /\ t.rem = 0 \/ ~t.cur
          /\ threads' = threads \ {t}
    /\ log' = <<Ev("select_timeout", "", "", 0)>>
    /\ rx' = NoRx
    /\ UNCHANGED <<all_good, arm_status, alarming, count, fortress_socket,
                   timeout_timer, heartbeat_timer, phase, stopped, attempt,
                   fault, quiet, race>>

\* KeyboardInterrupt in the main thread while it is inside the loop's try:
\* _tear_down, then sys.exit()
Stop ==
    /\ LET s == TearDown(Emit(Self, Ev("KeyboardInterrupt", "", "", 0)))
       IN /\ Commit(IF s.raised THEN Emit(s, Ev("unhandled", "work", "", 0)) ELSE s)
          /\ \E t \in threads :
                /\ t.main
                /\ threads' = AfterTearDown(threads \ {t}, s)
    /\ stopped' = TRUE
    /\ rx' = NoRx
    /\ quiet' = 0
    /\ UNCHANGED <<phase, attempt, fault, race>>

\* a command frame one byte short
CommandFrame_short(msg) == COMMAND \o msg \o Zeros(77)

\* the frame sendCommand builds
CommandFrame(msg) == COMMAND \o msg \o Zeros(78)

\* the host calls sendCommand(msg)
SendCommand(msg, ok) ==
    /\ ~stopped
    /\ LET s == SendToSocket(Self, "COMMAND", CommandFrame(msg), ok)
       IN Commit(IF s.raised
                 THEN Emit([s EXCEPT !.raised = FALSE],
                           Ev("unhandled", "sendCommand", "", 0))
                 ELSE s)
    /\ rx' = NoRx
    /\ UNCHANGED <<threads, phase, stopped, attempt, fault, quiet, race>>

\* one time unit passes: nothing is due and every thread is blocked
Tick ==
    /\ phase = "started"
    /\ ~(timeout_timer.st = "pending" /\ timeout_timer.rem = 0)
    /\ ~(heartbeat_timer.st = "running" /\ heartbeat_timer.rem = 0)
    /\ \A t \in threads : t.rem > 0
    /\ timeout_timer' = IF timeout_timer.st = "pending"
                        THEN [timeout_timer EXCEPT !.rem = @ - 1, !.age = @ + 1]
                        ELSE timeout_timer
    /\ heartbeat_timer' = IF heartbeat_timer.st = "running"
                          THEN [heartbeat_timer EXCEPT !.rem = @ - 1]
                          ELSE heartbeat_timer
    /\ threads' = {IF t.cur THEN [t EXCEPT !.rem = @ - 1] ELSE t : t \in threads}
    /\ quiet' = IF all_good THEN quiet + 1 ELSE quiet
    /\ log' = << >>
    /\ rx' = NoRx
    /\ UNCHANGED <<all_good, arm_status, alarming, count, fortress_socket,
                   phase, stopped, attempt, fault, race>>

Next ==
    \/ \E o \in WorkOutcomes : Start(o)
    \/ \E o \in WorkOutcomes : TimerFire(o)
    \/ \E ok \in BOOLEAN : HeartbeatFire(ok)
    \/ \E d \in Received : Recv(d)
    \/ RecvError
    \/ SelectTimeout
    \/ Stop
    \/ \E m \in {DISARM, ARM, STAY_ARM}, ok \in BOOLEAN : SendCommand(m, ok)
    \/ Tick

Spec == Init /\ [][Next]_vars

----------------------------------------------------------------------------
(* The threads, statement by statement.

   Spec runs every handler as one step.  The object has no lock: the host's
   thread, each threading.Timer thread and the RepeatingTimer thread execute
   its methods concurrently.  SpecRace follows every thread through the
   statements of work(), _reconnect, _tear_down, _reschedule_reconnect and
   _reschedule_reconnect_asap, in every order.  Time is not counted: a
   timer is due once the threads have waited after it was started (rem = 0),
   and the threads wait only in connect(), send() and select(). *)

\* threads alive at once, and unreferenced timers that are told apart
MaxThreads == 2
MaxOrphans == 1

\* a thread: pc is the statement it executes next, ret the statement that
\* follows the return of the method it is in; own tells that
\* self.fortress_socket is the socket its work() created, on that the socket
\* its select() waits on is self.fortress_socket; d is the buffer recv()
\* returned to it
NoBuffer == [unexpected |-> FALSE, hasAck |-> FALSE]

Thread(main, pc, ret) ==
    [main |-> main, pc |-> pc, ret |-> ret, own |-> FALSE, on |-> FALSE,
     d |-> NoBuffer]

\* the buffers of SpecRace: b'', HEARTBEAT_ACK and HEARTBEAT
RaceReceived ==
    {[unexpected |-> r.unexpected, hasAck |-> r.hasAck] :
        r \in {x \in Received : x.len \in {0, AckLen}}}

RemoveAt(q, i) == SubSeq(q, 1, i - 1) \o SubSeq(q, i + 1, Len(q))

\* thread i continues as t, or has ended
Moved(q, i, t) == IF t.pc = "end" THEN RemoveAt(q, i) ELSE [q EXCEPT ![i] = t]

\* self.fortress_socket no longer is the socket any thread knows
Detached(q) == [k \in 1..Len(q) |-> [q[k] EXCEPT !.own = FALSE, !.on = FALSE]]

Lost(n, more) == IF more /\ n < MaxOrphans THEN n + 1 ELSE n

\* the fields of s, without the record of the calls that led to them
Fields(s) == [s EXCEPT !.log = << >>]

\* one statement-level step: the fields become those of s, the threads th;
\* lostT and lostH tell that the step overwrote the reference to a pending
\* Timer or to a running RepeatingTimer
RaceStep(s, th, lostT, lostH) ==
    /\ Commit(Fields(s))
    /\ race' = [th |-> th,
                orphans |-> Lost(race.orphans, lostT),
                due |-> Lost(race.due, lostT /\ timeout_timer.rem = 0),
                hb_orphans |-> Lost(race.hb_orphans, lostH),
                hb_due |-> Lost(race.hb_due, lostH /\ heartbeat_timer.rem = 0)]
    /\ UNCHANGED <<threads, phase, stopped, rx, attempt, fault, quiet>>

At(i, pc) == race.th[i].pc = pc

\* the thread enters _reschedule_reconnect_asap from an except clause that
\* returns from work()
ToAsap(t) == [t EXCEPT !.pc = "asap_clear", !.ret = "end"]

\* the method a thread is in returns
Return(t) == [t EXCEPT !.pc = t.ret, !.ret = "end"]

\* the host calls work()
RaceStart ==
    /\ phase = "init"
    /\ phase' = "started"
    /\ race' = [race EXCEPT !.th = Append(@, Thread(TRUE, "open", "end"))]
    /\ UNCHANGED <<all_good, arm_status, alarming, count, fortress_socket,
                   timeout_timer, heartbeat_timer, threads, stopped, log, rx,
                   attempt, fault, quiet>>

\* lines 91-92: a new socket replaces the one the field referenced, then
\* connect() succeeds or raises
StepOpen ==
    \E i \in 1..Len(race.th), ok \in BOOLEAN :
        /\ At(i, "open")
        /\ LET t == race.th[i]
               s1 == Emit([Self EXCEPT !.fortress_socket = "unconnected"],
                          Ev("socket", "", "", 0))
               s2 == IF ok
                     THEN Emit([s1 EXCEPT !.fortress_socket = "connected"],
                               Ev("connect", "", "", 0))
                     ELSE Emit(s1, Ev("connect_failed", "", "", 0))
               q == Detached(race.th)
           IN RaceStep(s2,
                       [q EXCEPT ![i] = IF ok
                                        THEN [t EXCEPT !.pc = "send", !.own = TRUE,
                                                       !.on = FALSE]
                                        ELSE ToAsap(q[i])],
                       FALSE, FALSE)

\* lines 93-94: both sends go to the socket the field references now
StepSend ==
    \E i \in 1..Len(race.th), outcome \in {"ok", "handshake", "bind"} :
        /\ At(i, "send")
        /\ LET t == race.th[i]
               s3 == SendToSocket(Self, "HANDSHAKE", HANDSHAKE, outcome # "handshake")
               s4 == IF s3.raised THEN s3
                     ELSE SendToSocket(s3, "BIND_ME", BIND_ME, outcome # "bind")
           IN RaceStep([s4 EXCEPT !.raised = FALSE],
                       [race.th EXCEPT ![i] = IF s4.raised THEN ToAsap(t)
                                              ELSE [t EXCEPT !.pc = "good"]],
                       FALSE, FALSE)

\* line 96, then the call of line 97
StepGood ==
    \E i \in 1..Len(race.th) :
        /\ At(i, "good")
        /\ RaceStep(SetAllGood(Self, TRUE),
                    [race.th EXCEPT ![i] = [@ EXCEPT !.pc = "rr_cancel", !.ret = "hb"]],
                    FALSE, FALSE)

\* _reschedule_reconnect, lines 142-144
StepCancel ==
    \E i \in 1..Len(race.th) :
        /\ At(i, "rr_cancel")
        /\ RaceStep(IF timeout_timer.st # "none"
                    THEN Emit([Self EXCEPT !.timeout_timer = NoTimer],
                              Ev("cancel", "timeout_timer", timeout_timer.st,
                                 timeout_timer.age))
                    ELSE Self,
                    [race.th EXCEPT ![i] = [@ EXCEPT !.pc = "rr_arm"]],
                    FALSE, FALSE)

\* _reschedule_reconnect, lines 145-146: the field is assigned whatever it
\* references
StepArm ==
    \E i \in 1..Len(race.th) :
        /\ At(i, "rr_arm")
        /\ RaceStep(Emit([Self EXCEPT !.timeout_timer = NewTimer("timeout", TIMEOUT_AFTER)],
                         Ev("arm", "timeout", timeout_timer.st, TIMEOUT_AFTER)),
                    [race.th EXCEPT ![i] = Return(@)],
                    timeout_timer.st = "pending", FALSE)

\* lines 98-99
StepHeartbeatTimer ==
    \E i \in 1..Len(race.th) :
        /\ At(i, "hb")
        /\ RaceStep(Emit([Self EXCEPT !.heartbeat_timer =
                                          [st |-> "running", rem |-> HEARTBEAT_INTERVAL]],
                         Ev("hb_start", "", heartbeat_timer.st, HEARTBEAT_INTERVAL)),
                    [race.th EXCEPT ![i] = [@ EXCEPT !.pc = "while"]],
                    FALSE, heartbeat_timer.st = "running")

\* line 105, and the entry of select() at lines 107-109 with the socket the
\* field references now: None is no file object (TypeError), a socket that
\* never connected fails in recv(); both end in the bare except
StepWhile ==
    \E i \in 1..Len(race.th) :
        /\ At(i, "while")
        /\ LET t == race.th[i]
           IN RaceStep(Emit(Self, Ev("while", PyBool(all_good), fortress_socket, 0)),
                       Moved(race.th, i,
                             IF ~all_good THEN [t EXCEPT !.pc = "end"]
                             ELSE IF fortress_socket = "connected"
                                  THEN [t EXCEPT !.pc = "select", !.on = TRUE]
                                  ELSE ToAsap(t)),
                       FALSE, FALSE)

\* lines 107-112: data arrives on the socket the thread waits on
StepRecv ==
    \E i \in 1..Len(race.th), d \in RaceReceived :
        /\ At(i, "select")
        /\ race.th[i].on
        /\ RaceStep(Emit(Self, Ev("recv", PyBool(race.th[i].own), "", 0)),
                    [race.th EXCEPT ![i] = [@ EXCEPT !.pc = "process", !.d = d]],
                    FALSE, FALSE)

\* lines 110-111: select() times out, on an open socket or on a closed one
StepSelectTimeout ==
    \E i \in 1..Len(race.th) :
        /\ At(i, "select")
        /\ RaceStep(Emit(Self, Ev("select_timeout", "", "", 0)),
                    RemoveAt(race.th, i), FALSE, FALSE)

\* line 113, _process_update up to the call it makes (lines 164-172)
StepProcess ==
    \E i \in 1..Len(race.th) :
        /\ At(i, "process")
        /\ LET t == [race.th[i] EXCEPT !.d = NoBuffer]
               d == race.th[i].d
           IN RaceStep(Emit(Self, Ev("_process_update", "", "", 0)),
                       [race.th EXCEPT ![i] =
                           IF d.unexpected
                           THEN [t EXCEPT !.pc = "asap_clear", !.ret = "while"]
                           ELSE IF d.hasAck
                                THEN [t EXCEPT !.pc = "rr_cancel", !.ret = "while"]
                                ELSE [t EXCEPT !.pc = "while"]],
                       FALSE, FALSE)

\* _reschedule_reconnect_asap, lines 132-133
StepAsapClear ==
    \E i \in 1..Len(race.th) :
        /\ At(i, "asap_clear")
        /\ RaceStep(ClearTimers(SetAllGood(Self, FALSE)),
                    [race.th EXCEPT ![i] = [@ EXCEPT !.pc = "asap_arm"]],
                    FALSE, FALSE)

\* _reschedule_reconnect_asap, lines 134-139; work() returns when the call
\* came from an except clause
StepAsapArm ==
    \E i \in 1..Len(race.th) :
        /\ At(i, "asap_arm")
        /\ RaceStep(Emit([Self EXCEPT !.timeout_timer = NewTimer("error", RETRY_AFTER_ERROR)],
                         Ev("arm", "error", timeout_timer.st, RETRY_AFTER_ERROR)),
                    Moved(race.th, i, Return(race.th[i])),
                    timeout_timer.st = "pending", FALSE)

\* _tear_down, lines 222-225
StepReset ==
    \E i \in 1..Len(race.th) :
        /\ At(i, "td_reset")
        /\ RaceStep(SetAlarming([SetAllGood(Self, FALSE) EXCEPT
                                     !.count = 0, !.arm_status = NoStatus],
                                "None", <<0>>),
                    [race.th EXCEPT ![i] = [@ EXCEPT !.pc = "td_close"]],
                    FALSE, FALSE)

\* _tear_down, lines 226-229: shutdown() of a socket that never connected
\* raises, and the exception ends the thread
StepClose ==
    \E i \in 1..Len(race.th) :
        /\ At(i, "td_close")
        /\ CASE fortress_socket = "None" ->
                    RaceStep(Self,
                             [race.th EXCEPT ![i] = [@ EXCEPT !.pc = "td_timers"]],
                             FALSE, FALSE)
             [] fortress_socket = "unconnected" ->
                    RaceStep(Emit(Emit(Self, Ev("shutdown_failed", "", "", 0)),
                                  Ev("unhandled", "_tear_down", "", 0)),
                             RemoveAt(race.th, i), FALSE, FALSE)
             [] OTHER ->
                    RaceStep(Emit(Emit([Self EXCEPT !.fortress_socket = "None"],
                                       Ev("shutdown", "", "", 0)),
                                  Ev("close", "", "", 0)),
                             [Detached(race.th) EXCEPT ![i] = [@ EXCEPT !.pc = "td_timers"]],
                             FALSE, FALSE)

\* _tear_down, line 230; _reconnect goes on with work(), the handler of
\* KeyboardInterrupt with sys.exit()
StepClearTimers ==
    \E i \in 1..Len(race.th) :
        /\ At(i, "td_timers")
        /\ RaceStep(ClearTimers(Self), Moved(race.th, i, Return(race.th[i])),
                    FALSE, FALSE)

\* the Timer self.timeout_timer references expires: a new thread runs
\* _reconnect
RaceTimerFire ==
    /\ timeout_timer.st = "pending"
    /\ timeout_timer.rem = 0
    /\ Len(race.th) < MaxThreads
    /\ RaceStep(Emit([Self EXCEPT !.timeout_timer.st = "fired"],
                     Ev("fire", timeout_timer.kind, "", 0)),
                Append(race.th, Thread(FALSE, "td_reset", "open")),
                FALSE, FALSE)

\* a pending Timer that no field references expires as well
RaceOrphanFire ==
    /\ race.due > 0
    /\ Len(race.th) < MaxThreads
    /\ Commit(Self)
    /\ race' = [race EXCEPT !.th = Append(@, Thread(FALSE, "td_reset", "open")),
                            !.orphans = @ - 1, !.due = @ - 1]
    /\ UNCHANGED <<threads, phase, stopped, rx, attempt, fault, quiet>>

\* KeyboardInterrupt reaches the main thread inside the try of the loop
RaceInterrupt ==
    /\ ~stopped
    /\ \E i \in 1..Len(race.th) :
          /\ race.th[i].main
          /\ race.th[i].pc \in {"select", "process"}
          /\ race' = [race EXCEPT !.th[i] =
                         [@ EXCEPT !.pc = "td_reset", !.ret = "end", !.d = NoBuffer]]
    /\ stopped' = TRUE
    /\ Commit(Self)
    /\ UNCHANGED <<threads, phase, rx, attempt, fault, quiet>>

\* a RepeatingTimer calls _send_heartbeat: the one the field references, or
\* one that was replaced while it ran
RaceHeartbeat ==
    \E ok \in BOOLEAN, referenced \in BOOLEAN :
        /\ count < MaxCount
        /\ IF referenced
           THEN heartbeat_timer.st = "running" /\ heartbeat_timer.rem = 0
           ELSE race.hb_due > 0
        /\ LET s1 == SendToSocket([Self EXCEPT !.count = @ + 1],
                                  "HEARTBEAT", HEARTBEAT, ok)
               s2 == IF referenced
                     THEN [s1 EXCEPT !.heartbeat_timer = RepeatingTimerAfterCall(s1.raised)]
                     ELSE s1
           IN /\ Commit(Fields(s2))
              /\ race' = IF referenced THEN race
                         ELSE IF s1.raised
                              THEN [race EXCEPT !.hb_orphans = @ - 1, !.hb_due = @ - 1]
                              ELSE [race EXCEPT !.hb_due = @ - 1]
        /\ UNCHANGED <<threads, phase, stopped, rx, attempt, fault, quiet>>

\* the statements at which a thread waits for the network
Blocking == {"open", "send", "select"}

\* every thread waits: the delays of the timers that run pass
RaceWait ==
    /\ phase = "started"
    /\ \A i \in 1..Len(race.th) : race.th[i].pc \in Blocking
    /\ timeout_timer' = IF timeout_timer.st = "pending"
                        THEN [timeout_timer EXCEPT !.rem = 0]
                        ELSE timeout_timer
    /\ heartbeat_timer' = IF heartbeat_timer.st = "running"
                          THEN [heartbeat_timer EXCEPT !.rem = 0]
                          ELSE heartbeat_timer
    /\ race' = [race EXCEPT !.due = race.orphans, !.hb_due = race.hb_orphans]
    /\ UNCHANGED <<all_good, arm_status, alarming, count, fortress_socket,
                   threads, phase, stopped, log, rx, attempt, fault, quiet>>

NextRace ==
    \/ RaceStart
    \/ StepOpen
    \/ StepSend
    \/ StepGood
    \/ StepCancel
    \/ StepArm
    \/ StepHeartbeatTimer
    \/ StepWhile
    \/ StepRecv
    \/ StepSelectTimeout
    \/ StepProcess
    \/ StepAsapClear
    \/ StepAsapArm
    \/ StepReset
    \/ StepClose
    \/ StepClearTimers
    \/ RaceTimerFire
    \/ RaceOrphanFire
    \/ RaceInterrupt
    \/ RaceHeartbeat
    \/ RaceWait

SpecRace == Init /\ [][NextRace]_vars

----------------------------------------------------------------------------
(* Vocabulary of the properties *)

\* the last step processed a received buffer
Received182 == rx.len = StatusLen

\* positions of the calls of a callback in the log of the last step
Calls(cb) == {i \in 1..Len(log) : log[i].op = cb}

\* the alarming flag the received status frame reports (byte 181 = 0x01)
FrameAlarming == PyBool(rx.flag = 1)

\* the received status frame reports Disarmed (top 4 bits of byte 10 = 1)
FrameDisarmed == rx.hi = 1

\* the alarm change was stored and published by the last step
AlarmAccepted ==
    /\ alarming = FrameAlarming
    /\ \E i \in Calls("onAlarmChange") : log[i].a = FrameAlarming

\* the alarm flag was left alone by the last step, and no callback fired
AlarmIgnored ==
    /\ alarming = rx.wasAlarming
    /\ Calls("onAlarmChange") = {}

----------------------------------------------------------------------------
(* C1 *)

\* false -> true was stored and published with the zone byte of the frame
AlarmRaised ==
    /\ alarming = "True"
    /\ \E i \in Calls("onAlarmChange") : (log[i].a = "True" /\ log[i].z = rx.zbyte)

C1_Frame ==
    (Received182 /\ rx.wasAlarming \in {"False", "True"}) =>
        CASE FrameAlarming = rx.wasAlarming -> AlarmIgnored
          [] rx.wasAlarming = "False" /\ FrameAlarming = "True" -> AlarmRaised
          [] rx.wasAlarming = "True" /\ FrameAlarming = "False" ->
                (IF FrameDisarmed THEN AlarmAccepted ELSE AlarmIgnored)

C1_Survives ==
    (alarming = "True" /\ alarming' # "True") =>
        (\/ HasEv(log', "shutdown")
         \/ HasEv(log', "shutdown_failed")
         \/ (rx'.len = StatusLen /\ rx'.hi = 1))

\* C1: on a status frame met with alarming stored as false or true: an equal
\* flag stores nothing and calls nothing; false -> true is stored and
\* onAlarmChange(true, zone byte of the frame) is called whatever the arm
\* status; true -> false is accepted only when the frame reports Disarmed.
\* A stored true is only given up by a Disarmed frame or a teardown.
C1_AlarmTransition == [] C1_Frame /\ [][C1_Survives]_vars

----------------------------------------------------------------------------
(* C2 *)

\* C2 as worded: a differing flag is accepted only if the stored flag is
\* true or the frame reports Disarmed, and is ignored in every other case.
C2_GuardAsWorded ==
    (Received182 /\ FrameAlarming # rx.wasAlarming) =>
        IF rx.wasAlarming = "True" \/ FrameDisarmed
        THEN AlarmAccepted
        ELSE AlarmIgnored

\* C2, amended: a differing flag is accepted only if the stored flag is not
\* true (false, or not yet set) or the frame reports Disarmed, and is
\* ignored in every other case.
C2_Guard ==
    (Received182 /\ FrameAlarming # rx.wasAlarming) =>
        IF rx.wasAlarming # "True" \/ FrameDisarmed
        THEN AlarmAccepted
        ELSE AlarmIgnored

\* a frame reporting "not alarming" while armed met a stored alarm and was
\* ignored
C2_Witness ==
    /\ Received182
    /\ rx.wasAlarming = "True"
    /\ rx.flag = 0
    /\ ~FrameDisarmed
    /\ alarming = "True"

----------------------------------------------------------------------------
(* Vocabulary of the reconnect properties *)

\* the last step processed a received buffer
ReceivedBuffer == rx.len # -1

\* the received buffer is empty, or its length is neither 182 nor 8 and it
\* is not the BindAck literal
FrameViolates ==
    \/ rx.len = 0
    \/ (rx.len # StatusLen /\ rx.len # AckLen /\ ~rx.bound)

\* the log l holds the operation e
Did(l, e) == \E i \in 1..Len(l) : l[i] = e

\* the log l holds a connect attempt made by the timer thread: a completed
\* teardown (shutdown, close) followed by the start of the connect sequence
TornDownThenConnect(l) ==
    \E i, j, k \in 1..Len(l) :
        /\ i < j /\ j < k /\ k < Len(l)
        /\ l[i].op = "shutdown"
        /\ l[j].op = "close"
        /\ l[k] = Ev("work", "reconnect", "", 0)
        /\ l[k + 1].op = "socket"

\* no receive loop is reading the current socket
LoopStopped == \A t \in threads : ~t.cur

----------------------------------------------------------------------------
(* C3 *)

\* a violating buffer takes the immediate-error path, any other buffer
\* does not
C3_Classified ==
    ReceivedBuffer =>
        IF FrameViolates
        THEN /\ ~all_good
             /\ Did(log, Ev("onErrorChange", "False", "True", 0))
             /\ heartbeat_timer = NoHb
             /\ \E i \in Calls("cancel") : log[i].a = "timeout_timer"
             /\ \E i \in Calls("cancel") : log[i].a = "heartbeat_timer"
             /\ timeout_timer = NewTimer("error", RETRY_AFTER_ERROR)
             /\ LoopStopped
             /\ fault = "ProtocolViolation"
        ELSE /\ all_good
             /\ ~Did(log, Ev("arm", "error", "", RETRY_AFTER_ERROR))
             /\ Calls("onErrorChange") = {}
             /\ timeout_timer.kind = "timeout"
             /\ ~LoopStopped

\* while the reconnect armed by a violation is pending, it is exactly 3
\* units after its arming when it is due
C3_Pending ==
    (fault = "ProtocolViolation" /\ timeout_timer.st = "pending") =>
        /\ timeout_timer.kind = "error"
        /\ timeout_timer.rem + timeout_timer.age = RETRY_AFTER_ERROR

\* with the reconnect of a violation pending and the client not stopped,
\* a step either lets the timer run on, or is the timer firing 3 units after
\* the violation with a teardown and a connect attempt; no connect attempt
\* is made by any other step
C3_Retry ==
    (fault = "ProtocolViolation" /\ timeout_timer.st = "pending" /\ ~stopped') =>
        IF HasEv(log', "fire") \/ HasEv(log', "socket")
        THEN /\ log'[1] = Ev("fire", "error", "ProtocolViolation", RETRY_AFTER_ERROR)
             /\ TornDownThenConnect(log')
        ELSE /\ timeout_timer'.st = "pending"
             /\ timeout_timer'.kind = "error"
             /\ timeout_timer'.age \in {timeout_timer.age, timeout_timer.age + 1}

\* C3: an inbound payload that is empty, or whose length is neither 182 nor
\* 8 and that is not the BindAck literal, makes the health false, cancels
\* both timers, stops the receive loop, and a teardown followed by a connect
\* attempt happens exactly 3 time units later; a payload of length 182 or 8
\* or equal to BindAck never takes this path.
C3_ProtocolViolation ==
    [] (C3_Classified /\ C3_Pending) /\ [][C3_Retry]_vars

\* the timer armed by a violation fired 3 units later, tore down and
\* started the connect sequence
C3_Witness ==
    /\ Len(log) > 0
    /\ log[1] = Ev("fire", "error", "ProtocolViolation", RETRY_AFTER_ERROR)
    /\ TornDownThenConnect(log)

----------------------------------------------------------------------------
(* C4 *)

\* while the connection is healthy the liveness deadline is pending, and it
\* is due 9 units after the bind or the last HeartbeatAck (quiet counts the
\* time since then)
C4_Deadline ==
    all_good =>
        timeout_timer = [st |-> "pending", kind |-> "timeout",
                         rem |-> TIMEOUT_AFTER - quiet, age |-> quiet]

\* on a healthy connection: a buffer without a HeartbeatAck that is not a
\* violation leaves the deadline alone; the deadline fires only after 9
\* quiet units, and then tears down and starts the connect sequence; no
\* other step makes a connect attempt
C4_Expiry ==
    all_good =>
        /\ (rx'.len # -1 /\ rx'.ack = -1 /\ all_good') =>
               timeout_timer' = timeout_timer
        /\ (HasEv(log', "fire") \/ HasEv(log', "socket")) =>
               /\ quiet = TIMEOUT_AFTER
               /\ log'[1] = Ev("fire", "timeout", fault, TIMEOUT_AFTER)
               /\ TornDownThenConnect(log')

\* C4: when no HeartbeatAck is received for 9 time units after the liveness
\* deadline was armed (at the bind or at the last HeartbeatAck), the deadline
\* fires at 9 units, never at 3, and a teardown followed by the connect
\* sequence happens; also when nothing was sent or received, and when status
\* frames without a HeartbeatAck keep arriving.
C4_LivenessTimeout == [] C4_Deadline /\ [][C4_Expiry]_vars

\* the deadline fired 9 units after it was armed and a connect attempt
\* followed the teardown
C4_Witness ==
    /\ Len(log) > 0
    /\ log[1].op = "fire"
    /\ log[1].a = "timeout"
    /\ log[1].z = TIMEOUT_AFTER
    /\ TornDownThenConnect(log)

----------------------------------------------------------------------------
(* C5 *)

\* the last step replaced the pending deadline by a new one of 9 units
DeadlineRearmed ==
    /\ timeout_timer = NewTimer("timeout", TIMEOUT_AFTER)
    /\ \E i, j \in 1..Len(log) :
          /\ i < j
          /\ log[i].op = "cancel" /\ log[i].a = "timeout_timer"
          /\ log[i].b = "pending"
          /\ log[j] = Ev("arm", "timeout", "", TIMEOUT_AFTER)

\* C5 as worded: whenever a received buffer contains the HeartbeatAck literal
\* at any offset, whatever the length of the buffer, the liveness deadline
\* is rearmed to 9 time units from that moment, replacing the pending one.
C5_AckAnywhere ==
    (ReceivedBuffer /\ rx.ack # -1) => (DeadlineRearmed /\ all_good)

\* C5, amended: whenever a received buffer of length 8 or 182 contains the
\* HeartbeatAck literal at any offset, also when the buffer is larger than
\* the literal and the literal is not frame-aligned, the liveness deadline is
\* rearmed to 9 time units from that moment, replacing the pending one.
C5_AckInFrame ==
    (ReceivedBuffer /\ rx.len \in {AckLen, StatusLen} /\ rx.ack # -1) =>
        (DeadlineRearmed /\ all_good)

\* a status frame with the literal at an inner offset replaced a deadline
\* that had been running for some time
C5_Witness ==
    /\ rx.len = StatusLen
    /\ rx.ack = AckOffset
    /\ DeadlineRearmed
    /\ \E i \in Calls("cancel") : (log[i].a = "timeout_timer" /\ log[i].z > 0)

----------------------------------------------------------------------------
(* C6 *)

\* the last step was a send of a Command or of a Heartbeat that failed on
\* the connection of a successful bind
TransmitFailedAfterBind ==
    /\ attempt = "ok"
    /\ fortress_socket = "connected"
    /\ \E i \in Calls("send_failed") : log[i].a \in {"COMMAND", "HEARTBEAT"}

\* C6: a transmit failure of a frame sent after the bind, in sendCommand or
\* in the periodic heartbeat, is handled locally: the health becomes false,
\* the health callback fires, a reconnect is armed 3 time units later, and
\* nothing propagates to the caller or out of the heartbeat thread.
C6_TransmitFailureHandled ==
    TransmitFailedAfterBind =>
        /\ ~all_good
        /\ \E i \in Calls("onErrorChange") : log[i].a = "False"
        /\ timeout_timer = NewTimer("error", RETRY_AFTER_ERROR)
        /\ ~HasEv(log, "unhandled")

----------------------------------------------------------------------------
(* C7 *)

\* after a failed connect attempt the next one is pending, and due 3 units
\* after the failure
C7_Pending ==
    (attempt = "failed" /\ ~stopped) =>
        /\ timeout_timer.st = "pending"
        /\ timeout_timer.kind = "error"
        /\ timeout_timer.rem + timeout_timer.age = RETRY_AFTER_ERROR

\* the timer armed by a failed attempt fires after 3 units; its teardown
\* completes and the connect sequence is started again
C7_Retry ==
    (attempt = "failed" /\ ~stopped' /\ HasEv(log', "fire")) =>
        /\ log'[1].a = "error"
        /\ log'[1].z = RETRY_AFTER_ERROR
        /\ ~HasEv(log', "shutdown_failed")
        /\ Did(log', Ev("work", "reconnect", "", 0))
        /\ HasEv(log', "socket")

\* C7: unless the client is stopped, every failed connect attempt (connect
\* failure, or a failure sending Handshake or BindRequest) is followed by
\* another attempt 3 time units later, for any number of failures in a row;
\* the teardown before each retry completes, also on a transport that was
\* opened and never connected.
C7_NeverGivesUp == [] C7_Pending /\ [][C7_Retry]_vars

----------------------------------------------------------------------------
(* C8 *)

\* C8: no call of the health, status or alarm callback delivers a value
\* equal to the value that was stored immediately before the call.
C8_OnlyOnChange ==
    \A i \in 1..Len(log) :
        /\ log[i].op \in {"onErrorChange", "onAlarmChange"} => log[i].a # log[i].b
        /\ log[i].op = "onStatusChange" => log[i].x # log[i].y

----------------------------------------------------------------------------
(* C9 *)

\* the last step was an explicit stop whose teardown completed
TornDown ==
    /\ HasEv(log, "KeyboardInterrupt")
    /\ ~HasEv(log, "unhandled")

\* C9: a teardown invoked right after a teardown leaves the state as it is
\* (health false, counter 0, status unknown, alarm cleared, no transport,
\* no timers) and does nothing observable: no callback, no transport
\* operation, no timer operation.
C9_TearDownIdempotent ==
    TornDown =>
        LET s == TearDown(Self)
        IN /\ ~s.raised
           /\ s.log = << >>
           /\ s.all_good = all_good /\ all_good = FALSE
           /\ s.count = count /\ count = 0
           /\ s.arm_status = arm_status /\ arm_status = NoStatus
           /\ s.alarming = alarming /\ alarming = "None"
           /\ s.fortress_socket = fortress_socket /\ fortress_socket = "None"
           /\ s.timeout_timer = timeout_timer /\ timeout_timer = NoTimer
           /\ s.heartbeat_timer = heartbeat_timer /\ heartbeat_timer = NoHb

----------------------------------------------------------------------------
(* C10 *)

\* after an explicit stop no timer is pending
C10_NoTimers ==
    stopped =>
        /\ timeout_timer.st # "pending"
        /\ heartbeat_timer.st # "running"

\* after an explicit stop no connect attempt is made
C10_NoConnect == stopped => ~HasEv(log', "socket")

\* C10: an explicit stop (user interrupt in the receive loop) runs the
\* teardown and does not reschedule: afterwards no liveness or reconnect
\* timer and no heartbeat timer is pending, and no connect attempt is made.
C10_StopIsFinal == [] C10_NoTimers /\ [][C10_NoConnect]_vars

----------------------------------------------------------------------------
(* C14 *)

\* C14: after a 182-byte status frame was processed, the stored ArmStatus
\* follows from the top 4 bits of bytes 10 to 12 alone: 0 gives Armed, 1
\* Disarmed, 2 StayArmed, equal to the command codes 0x00, 0x10, 0x20,
\* whatever the 20 outlet bits and the other bytes of the frame are.
C14_StatusDecode ==
    Received182 =>
        /\ rx.hi = 0 => arm_status = ARM
        /\ rx.hi = 1 => arm_status = DISARM
        /\ rx.hi = 2 => arm_status = STAY_ARM

\* a frame with outlet bits set was decoded as Disarmed
C14_Witness ==
    /\ Received182
    /\ rx.hi = 1
    /\ rx.outlets > 0
    /\ arm_status = DISARM
    /\ \E i \in Calls("onStatusChange") : log[i].x = DISARM

----------------------------------------------------------------------------
(* C15 *)

\* C15: the zone delivered to the alarm callback when a status frame's alarm
\* change is accepted is the byte at offset 89 of the frame, an integer
\* from 0 to 255.
C15_Zone ==
    Received182 =>
        \A i \in Calls("onAlarmChange") :
            /\ log[i].z = rx.zbyte
            /\ log[i].z \in 0..255

----------------------------------------------------------------------------
(* C16 *)

\* the four values of ArmStatus: Armed, Disarmed, StayArmed, Unknown
ArmStatusValues == {ARM, DISARM, STAY_ARM, NoStatus}

\* C16: the value getStatus returns and every value delivered to the status
\* callback is Armed, Disarmed, StayArmed or Unknown.
C16_StatusEnum ==
    /\ arm_status \in ArmStatusValues
    /\ \A i \in Calls("onStatusChange") : log[i].x \in ArmStatusValues

----------------------------------------------------------------------------
(* C17 *)

\* the last step was a sendCommand that transmitted
CommandSent == \E i \in Calls("send") : log[i].a = "COMMAND"

\* exactly one frame of 92 bytes was sent: the 13-byte header, one command
\* code, 78 zero bytes; no buffer was received
C17_Frame ==
    CommandSent =>
        /\ Len(log) = 1
        /\ log[1].z = 92
        /\ Len(log[1].x) = 92
        /\ SubSeq(log[1].x, 1, 13) = <<0, 0, 0, 3, 87, 0, 0, 144, 1, 0, 16, 0, 0>>
        /\ log[1].x[14] \in {0, 16, 32}
        /\ \A i \in 15..92 : log[1].x[i] = 0
        /\ rx = NoRx

\* a sendCommand leaves the receive loops and the state of the client alone
C17_NoReceive ==
    (\E i \in Calls("send")' : log'[i].a = "COMMAND") =>
        UNCHANGED <<threads, all_good, arm_status, alarming, count,
                    fortress_socket, timeout_timer, heartbeat_timer>>

\* C17: sendCommand with Arm, Disarm or StayArm transmits exactly one frame
\* of exactly 92 bytes (13-byte header, the command code, 78 zero bytes),
\* sends nothing else and consumes no inbound frame.
C17_CommandFrame == [] C17_Frame /\ [][C17_NoReceive]_vars

\* the StayArm command was transmitted
C17_Witness ==
    /\ CommandSent
    /\ log[1].x[14] = 32
    /\ Len(log[1].x) = 92

----------------------------------------------------------------------------
(* C18 *)

\* while the retry of an immediate-class failure is pending the client is
\* torn down
C18_TornDownWhileWaiting ==
    (timeout_timer.st = "pending" /\ timeout_timer.kind = "error") =>
        /\ ~all_good
        /\ count = 0
        /\ arm_status = NoStatus
        /\ alarming = "None"
        /\ fortress_socket = "None"

\* a connect attempt other than the first start follows a completed
\* teardown in the same step
C18_AttemptAfterTearDown ==
    (phase = "started" /\ HasEv(log', "socket")) => TornDownThenConnect(log')

\* C18: on every immediate-class failure the teardown is executed before
\* the reconnect is scheduled: throughout the 3-unit delay the health is
\* false, the heartbeat counter is 0, the status is Unknown, the alarm is
\* cleared and the transport is closed; and every connect attempt other
\* than the first start is immediately preceded by a completed teardown.
C18_TeardownBeforeScheduling ==
    [] C18_TornDownWhileWaiting /\ [][C18_AttemptAfterTearDown]_vars

----------------------------------------------------------------------------
(* C19 *)

\* the operations of a connect sequence that completed, in their order, on
\* the transport opened last in the log l
ConnectSequence(l) ==
    \E i \in 1..Len(l) :
        /\ i + 6 = Len(l)
        /\ l[i].op = "socket"
        /\ l[i + 1].op = "connect"
        /\ l[i + 2].op = "send" /\ l[i + 2].a = "HANDSHAKE" /\ l[i + 2].x = HANDSHAKE
        /\ l[i + 3].op = "send" /\ l[i + 3].a = "BIND_ME" /\ l[i + 3].x = BIND_ME
        /\ l[i + 4] = Ev("onErrorChange", "True", "False", 0)
        /\ l[i + 5] = Ev("arm", "timeout", "", TIMEOUT_AFTER)
        /\ l[i + 6].op = "hb_start"

\* a step of the connect sequence up to the BindRequest failed in the last
\* step
ConnectStepFailed ==
    \/ HasEv(log, "connect_failed")
    \/ \E i \in Calls("send_failed") : log[i].a \in {"HANDSHAKE", "BIND_ME"}

\* what a step that ran the connect sequence leaves behind
C19_Sequence ==
    /\ (\E i \in Calls("onErrorChange") : log[i].a = "True") =>
           (ConnectSequence(log) /\ all_good /\ fortress_socket = "connected")
    /\ ConnectStepFailed =>
           /\ ~all_good
           /\ \A i \in Calls("onErrorChange") : log[i].a = "False"
           /\ ~HasEv(log, "hb_start")
           /\ heartbeat_timer = NoHb
    /\ (\E i \in Calls("send") : log[i].a = "HEARTBEAT") =>
           (timeout_timer.st = "pending" /\ timeout_timer.kind = "timeout")
    /\ heartbeat_timer.st = "running" =>
           (timeout_timer.st = "pending" /\ timeout_timer.kind = "timeout")

\* the health becomes true only in a step that ran the whole sequence
C19_HealthOnlyAfterBind ==
    (~all_good /\ all_good') => ConnectSequence(log')

\* C19: every connect sequence opens a transport, sends Handshake, sends
\* BindRequest, sets the health to true and fires the health callback, arms
\* the liveness deadline and starts the heartbeat emitter, in this order; the
\* health never becomes true before both frames were sent, no Heartbeat is
\* sent before the deadline was armed, and a failure up to the BindRequest
\* leaves the health false and starts no heartbeat emitter.
C19_ConnectOrder == [] C19_Sequence /\ [][C19_HealthOnlyAfterBind]_vars

\* a reconnect made by the timer thread ran the whole sequence
C19_Witness ==
    /\ HasEv(log, "fire")
    /\ ConnectSequence(log)
    /\ all_good

----------------------------------------------------------------------------
(* C20 *)

\* the step changes the stored status or alarm flag, or calls the status or
\* the alarm callback
StatusOrAlarmTouched ==
    \/ arm_status' # arm_status
    \/ alarming' # alarming
    \/ HasEv(log', "onStatusChange")
    \/ HasEv(log', "onAlarmChange")

\* the step ran a teardown (in the timer thread or on a user interrupt)
TearDownStep == HasEv(log', "fire") \/ HasEv(log', "KeyboardInterrupt")

C20_OnlyStatusFrames ==
    StatusOrAlarmTouched => (rx'.len = StatusLen \/ TearDownStep)

\* C20: the stored ArmStatus and alarming flag change, and their callbacks
\* are called, only when a 182-byte status frame is processed or a teardown
\* clears them: an 8-byte payload, the BindAck, a protocol violation,
\* sendCommand and the heartbeat emission leave them alone.
C20_FrameEffect == [][C20_OnlyStatusFrames]_vars

\* a HeartbeatAck was processed and left a decoded status and a raised
\* alarm in place
C20_Witness ==
    /\ rx.len = AckLen
    /\ rx.ack = 0
    /\ arm_status = ARM
    /\ alarming = "True"
    /\ ~HasEv(log, "onStatusChange")
    /\ ~HasEv(log, "onAlarmChange")

----------------------------------------------------------------------------
(* Claims about the interleavings of the threads (SpecRace) *)

\* C11: in every reachable state, under every interleaving of the receive
\* loop, the heartbeat emitter and the liveness/reconnect timer, all_good is
\* false whenever the client holds no open transport
\* (self.fortress_socket is None).
C11_HealthNeedsTransport == fortress_socket = "None" => ~all_good

\* C12: no pending Timer and no running RepeatingTimer exists that the
\* client no longer references: whenever a timer is created, the one
\* created before it has been cancelled or has fired.
C12_NoUnreferencedTimer == race.orphans = 0 /\ race.hb_orphans = 0

\* the threads blocked in select() on the socket the client holds
Readers == {i \in 1..Len(race.th) : race.th[i].pc = "select" /\ race.th[i].on}

\* C13: at most one receive loop reads from the client's transport, and a
\* receive loop that belongs to a torn-down session never reads from the
\* session that replaced it: the loop that reads is the one of the work()
\* call that opened the transport.
C13_OneLoopPerSession ==
    /\ Cardinality(Readers) <= 1
    /\ \A i \in Readers : race.th[i].own

====
